---- MODULE Spec2Model ----
(***************************************************************************)
(* SettingsDialog (src/components/Settings/SettingsDialog.tsx): the React  *)
(* settings form that loads the provider configuration when the dialog     *)
(* opens, validates the selected provider's API key and submits the edit   *)
(* buffer through window.electronAPI.updateConfig.                         *)
(*                                                                         *)
(* Strings that the code inspects character by character (the API keys)    *)
(* are sequences of one-character strings; the empty sequence is "".       *)
(* Strings the code only compares or passes on (model ids, messages) are   *)
(* TLA+ strings.                                                           *)
(***************************************************************************)
EXTENDS Integers, Sequences, FiniteSets, TLC

VARIABLES
    open,             \* useState open (line 90)
    provider,         \* useState provider (line 91)
    apiKey,           \* useState apiKey (line 92)
    claudeApiKey,     \* useState claudeApiKey (line 93)
    extractionModel,  \* useState extractionModel (line 94)
    solutionModel,    \* useState solutionModel (line 95)
    debuggingModel,   \* useState debuggingModel (line 96)
    isLoading,        \* useState isLoading (line 97)
    validationError,  \* useState validationError (line 98)
    loads,            \* getConfig calls in flight (promises not yet settled)
    saves,            \* updateConfig calls in flight (awaits not yet resumed)
    store,            \* the host's persisted configuration
    reloadPending,    \* the setTimeout(reload, 1500) of line 194 is armed
    toast,            \* the showToast call made by the last handler, or "none"
    lastOp,           \* history: the handler that ran last
    lastResult,       \* history: how the last settled updateConfig ended
    roundTrip,        \* history: the last successful save and whether anything intervened
    nLoads,           \* history: getConfig calls issued so far
    nSaves,           \* history: updateConfig calls issued so far
    nEdits,           \* history: user edits so far
    userEdits,        \* history: the fields the user set since the dialog opened, and to what
    vKey,             \* validator harness: the candidate key
    vProvider,        \* validator harness: the provider kind
    vResult,          \* validator harness: the boolean returned
    vDone             \* validator harness: validateApiKey has returned

formVars == <<open, provider, apiKey, claudeApiKey, extractionModel, solutionModel,
              debuggingModel, isLoading, validationError, loads, saves, store,
              reloadPending, toast, lastOp, lastResult, roundTrip, nLoads, nSaves,
              nEdits, userEdits>>
validatorVars == <<vKey, vProvider, vResult, vDone>>
vars == <<formVars, validatorVars>>

---------------------------------------------------------------------------
(* Bounds of the model *)

MaxLoads == 2   \* getConfig calls issued in one behaviour
MaxSaves == 2   \* updateConfig calls issued in one behaviour
MaxEdits == 1   \* user edits in one behaviour
MaxPad   == 1   \* whitespace characters put before / after a candidate key
MaxExtra == 1   \* body characters beyond the pattern's minimum

---------------------------------------------------------------------------
(* Characters and strings *)

Lower == {"a","b","c","d","e","f","g","h","i","j","k","l","m",
          "n","o","p","q","r","s","t","u","v","w","x","y","z"}
Upper == {"A","B","C","D","E","F","G","H","I","J","K","L","M",
          "N","O","P","Q","R","S","T","U","V","W","X","Y","Z"}
Digit == {"0","1","2","3","4","5","6","7","8","9"}

\* The character class [a-zA-Z0-9] of both patterns.
Alnum == Lower \cup Upper \cup Digit

\* Characters String.prototype.trim removes (representatives of the
\* WhiteSpace and LineTerminator classes).
WhiteSpace == {" ", "\t", "\n", "\r"}

Rep(c, n) == [i \in 1..n |-> c]

\* The quantifier {32,} of the two patterns.
OpenAIMinChars == 32
ClaudeMinChars == 32

RECURSIVE TrimStart(_)
TrimStart(s) ==
    IF s = <<>> THEN s
    ELSE IF Head(s) \in WhiteSpace THEN TrimStart(Tail(s)) ELSE s

RECURSIVE TrimEnd(_)
TrimEnd(s) ==
    IF s = <<>> THEN s
    ELSE IF s[Len(s)] \in WhiteSpace THEN TrimEnd(SubSeq(s, 1, Len(s) - 1)) ELSE s

\* key.trim()
Trim(s) == TrimEnd(TrimStart(s))

\* /^sk-[a-zA-Z0-9]{32,}$/.test(s)
OpenAIPatternTest(s) ==
    /\ Len(s) >= 3 + OpenAIMinChars
    /\ s[1] = "s" /\ s[2] = "k" /\ s[3] = "-"
    /\ \A i \in 4..Len(s) : s[i] \in Alnum

\* /^sk[-_]ant[-_][a-zA-Z0-9]{32,}$/.test(s)
ClaudePatternTest(s) ==
    /\ Len(s) >= 7 + ClaudeMinChars
    /\ s[1] = "s" /\ s[2] = "k" /\ s[3] \in {"-", "_"}
    /\ s[4] = "a" /\ s[5] = "n" /\ s[6] = "t" /\ s[7] \in {"-", "_"}
    /\ \A i \in 8..Len(s) : s[i] \in Alnum

validateApiKeyUntrimmed(key, p) ==
    IF p = "openai" THEN OpenAIPatternTest(key) ELSE ClaudePatternTest(key)

validateApiKeyShortBody(key, p) ==
    LET s == Trim(key) IN
    IF p = "openai"
    THEN /\ Len(s) >= 3 + OpenAIMinChars - 1
         /\ s[1] = "s" /\ s[2] = "k" /\ s[3] = "-"
         /\ \A i \in 4..Len(s) : s[i] \in Alnum
    ELSE ClaudePatternTest(s)

\* validateApiKey (lines 143-149)
validateApiKey(key, p) ==
    IF p = "openai" THEN OpenAIPatternTest(Trim(key)) ELSE ClaudePatternTest(Trim(key))

---------------------------------------------------------------------------
(* The form's data *)

Providers == {"openai", "claude"}

\* modelCategories[*].models[*].id (lines 30-82)
ModelIds == {"gpt-4o", "gpt-4o-mini"}

EmptyKey == <<>>
OpenAIKey == <<"s", "k", "-">> \o Rep("a", OpenAIMinChars)
PaddedOpenAIKey == <<" ">> \o OpenAIKey \o <<" ">>
ShortKey == <<"s", "k", "-", "s", "h", "o", "r", "t">>
ClaudeKey == <<"s", "k", "-", "a", "n", "t", "-">> \o Rep("a", ClaudeMinChars)

\* Values a user types or pastes into a key input (e.target.value).
TypedKeys == {EmptyKey, OpenAIKey, PaddedOpenAIKey, ShortKey, ClaudeKey}

\* The useState initial values of the six fields (lines 91-96).
Defaults ==
    [provider |-> "openai", apiKey |-> EmptyKey, claudeApiKey |-> EmptyKey,
     extractionModel |-> "gpt-4o", solutionModel |-> "gpt-4o",
     debuggingModel |-> "gpt-4o"]

\* The edit buffer: the six fields as one record.
Buffer ==
    [provider |-> provider, apiKey |-> apiKey, claudeApiKey |-> claudeApiKey,
     extractionModel |-> extractionModel, solutionModel |-> solutionModel,
     debuggingModel |-> debuggingModel]

\* Configurations the host may hold before the form first saves. A field the
\* host does not hold reads as undefined, which like "" is falsy: it is "" here
\* (and the empty sequence for a key).
InitStores ==
    { Defaults,
      [provider |-> "claude", apiKey |-> EmptyKey, claudeApiKey |-> ClaudeKey,
       extractionModel |-> "", solutionModel |-> "gpt-4o-mini",
       debuggingModel |-> "gpt-4o"],
      [provider |-> "", apiKey |-> OpenAIKey, claudeApiKey |-> EmptyKey,
       extractionModel |-> "gpt-4o-mini", solutionModel |-> "",
       debuggingModel |-> ""] }

\* x || d for a string x
OrElse(x, d) == IF x = "" THEN d ELSE x

\* x || "" for a key x: undefined and "" both give ""
KeyOrEmpty(k) == IF k = EmptyKey THEN EmptyKey ELSE k

LoadedBufferProviderIgnored(config) ==
    [provider |-> "openai",
     apiKey |-> KeyOrEmpty(config.apiKey),
     claudeApiKey |-> KeyOrEmpty(config.claudeApiKey),
     extractionModel |-> OrElse(config.extractionModel, "gpt-4o"),
     solutionModel |-> OrElse(config.solutionModel, "gpt-4o"),
     debuggingModel |-> OrElse(config.debuggingModel, "gpt-4o")]

\* The six setters of the getConfig().then callback (lines 125-130).
LoadedBuffer(config) ==
    [provider |-> OrElse(config.provider, "openai"),
     apiKey |-> KeyOrEmpty(config.apiKey),
     claudeApiKey |-> KeyOrEmpty(config.claudeApiKey),
     extractionModel |-> OrElse(config.extractionModel, "gpt-4o"),
     solutionModel |-> OrElse(config.solutionModel, "gpt-4o"),
     debuggingModel |-> OrElse(config.debuggingModel, "gpt-4o")]

SetBuffer(b) ==
    /\ provider' = b.provider
    /\ apiKey' = b.apiKey
    /\ claudeApiKey' = b.claudeApiKey
    /\ extractionModel' = b.extractionModel
    /\ solutionModel' = b.solutionModel
    /\ debuggingModel' = b.debuggingModel

SetBufferInit ==
    /\ provider = Defaults.provider
    /\ apiKey = Defaults.apiKey
    /\ claudeApiKey = Defaults.claudeApiKey
    /\ extractionModel = Defaults.extractionModel
    /\ solutionModel = Defaults.solutionModel
    /\ debuggingModel = Defaults.debuggingModel

bufferVars == <<provider, apiKey, claudeApiKey, extractionModel, solutionModel,
                debuggingModel>>

\* The messages handleSave sets (lines 158, 163, 169, 174).
MsgInvalidOpenAI == "Invalid OpenAI API key format. Keys should start with 'sk-'"
MsgInvalidClaude ==
    "Invalid Claude API key format. Keys should start with 'sk-ant-' or 'sk_ant_'"
MsgOpenAIRequired == "OpenAI API key is required"
MsgClaudeRequired == "Claude API key is required"

ValidationMessageNoRequiredCheck(p, k, ck) ==
    IF p = "openai" /\ k # EmptyKey /\ ~validateApiKey(k, "openai")
    THEN MsgInvalidOpenAI
    ELSE IF p = "claude" /\ ck # EmptyKey /\ ~validateApiKey(ck, "claude")
    THEN MsgInvalidClaude
    ELSE ""

ValidationMessageSwapped(p, k, ck) ==
    IF p = "openai" /\ k # EmptyKey /\ ~validateApiKey(k, "openai")
    THEN MsgInvalidOpenAI
    ELSE IF p = "claude" /\ ck # EmptyKey /\ ~validateApiKey(ck, "claude")
    THEN MsgInvalidClaude
    ELSE IF p = "openai" /\ k = EmptyKey
    THEN MsgClaudeRequired
    ELSE IF p = "claude" /\ ck = EmptyKey
    THEN MsgOpenAIRequired
    ELSE ""

\* The validation of handleSave (lines 157-176): the message of the first
\* check that returns early, "" when all four pass.
ValidationMessage(p, k, ck) ==
    IF p = "openai" /\ k # EmptyKey /\ ~validateApiKey(k, "openai")
    THEN MsgInvalidOpenAI
    ELSE IF p = "claude" /\ ck # EmptyKey /\ ~validateApiKey(ck, "claude")
    THEN MsgInvalidClaude
    ELSE IF p = "openai" /\ k = EmptyKey
    THEN MsgOpenAIRequired
    ELSE IF p = "claude" /\ ck = EmptyKey
    THEN MsgClaudeRequired
    ELSE ""

SaveArgsTrimmed ==
    [provider |-> provider, apiKey |-> Trim(apiKey), claudeApiKey |-> Trim(claudeApiKey),
     extractionModel |-> extractionModel, solutionModel |-> solutionModel,
     debuggingModel |-> debuggingModel]

\* The object literal passed to updateConfig (lines 180-187).
SaveArgs ==
    [provider |-> provider, apiKey |-> apiKey, claudeApiKey |-> claudeApiKey,
     extractionModel |-> extractionModel, solutionModel |-> solutionModel,
     debuggingModel |-> debuggingModel]

\* The names of the six fields of the edit buffer.
BufferFields == DOMAIN Defaults

\* No field set by the user yet.
NoEdits == [fields |-> {}, vals |-> Defaults]

\* The user sets `field` to `value`: a change when the field held another
\* value (a click on the card already selected changes nothing).
NoteEdit(field, value) ==
    userEdits' =
        IF Buffer[field] = value /\ field \notin userEdits.fields
        THEN userEdits
        ELSE [fields |-> userEdits.fields \cup {field},
              vals |-> [userEdits.vals EXCEPT ![field] = value]]

RemoveAt(s, i) == SubSeq(s, 1, i - 1) \o SubSeq(s, i + 1, Len(s))

---------------------------------------------------------------------------
(* The form: state after construction *)

Init ==
    /\ open = FALSE
    /\ SetBufferInit
    /\ isLoading = FALSE
    /\ validationError = ""
    /\ loads = <<>>
    /\ saves = <<>>
    /\ store \in InitStores
    /\ reloadPending = FALSE
    /\ toast = "none"
    /\ lastOp = "init"
    /\ lastResult = "none"
    /\ roundTrip = [cfg |-> Defaults, clean |-> FALSE]
    /\ nLoads = 0
    /\ nSaves = 0
    /\ nEdits = 0
    /\ userEdits = NoEdits
    /\ vKey = EmptyKey
    /\ vProvider = "openai"
    /\ vResult = FALSE
    /\ vDone = FALSE

\* Whatever is not a load issued or completed ends the "immediately after".
Intervene == roundTrip' = [roundTrip EXCEPT !.clean = FALSE]

\* The body of the load effect when open is true (lines 119-123): raise the
\* busy flag, clear the validation message, call getConfig.
IssueLoad ==
    /\ isLoading' = TRUE
    /\ validationError' = ""
    /\ loads' = Append(loads, [st |-> "sent", cfg |-> Defaults])
    /\ nLoads' = nLoads + 1

\* The dialog is opened from outside: externalOpen becomes true, the sync
\* effect sets open (lines 102-106) and the load effect runs (lines 118-140).
OpenDialog ==
    /\ ~open
    /\ nLoads < MaxLoads
    /\ open' = TRUE
    /\ IssueLoad
    /\ userEdits' = NoEdits
    /\ toast' = "none"
    /\ lastOp' = "open"
    /\ UNCHANGED <<bufferVars, saves, store, reloadPending, lastResult, roundTrip,
                   nSaves, nEdits, validatorVars>>

\* The load effect runs again while the dialog is open because its other
\* dependency, showToast, changed identity (line 140).
RerunLoadEffect ==
    /\ open
    /\ nLoads < MaxLoads
    /\ IssueLoad
    /\ toast' = "none"
    /\ lastOp' = "rerun"
    /\ UNCHANGED <<open, bufferVars, saves, store, reloadPending, lastResult,
                   roundTrip, nSaves, nEdits, validatorVars, userEdits>>

\* handleOpenChange(false) (lines 109-115): Cancel (line 476) or the dialog's
\* own close request (line 218).
CloseDialog ==
    /\ open
    /\ open' = FALSE
    /\ toast' = "none"
    /\ lastOp' = "close"
    /\ UNCHANGED <<bufferVars, isLoading, validationError, loads, saves, store,
                   reloadPending, lastResult, roundTrip, nLoads, nSaves, nEdits,
                   validatorVars, userEdits>>

Edited ==
    /\ nEdits' = nEdits + 1
    /\ toast' = "none"
    /\ lastOp' = "edit"
    /\ Intervene
    /\ UNCHANGED <<open, isLoading, validationError, loads, saves, store,
                   reloadPending, lastResult, nLoads, nSaves, validatorVars>>

\* A provider card is clicked (lines 257, 278).
SelectProvider(p) ==
    /\ open
    /\ nEdits < MaxEdits
    /\ provider' = p
    /\ NoteEdit("provider", p)
    /\ Edited
    /\ UNCHANGED <<apiKey, claudeApiKey, extractionModel, solutionModel, debuggingModel>>

\* The OpenAI key input changes (line 312); it is rendered only for openai (line 303).
EditApiKey(k) ==
    /\ open
    /\ provider = "openai"
    /\ nEdits < MaxEdits
    /\ apiKey' = k
    /\ NoteEdit("apiKey", k)
    /\ Edited
    /\ UNCHANGED <<provider, claudeApiKey, extractionModel, solutionModel, debuggingModel>>

\* The Claude key input changes (line 349); it is rendered only for claude (line 340).
EditClaudeApiKey(k) ==
    /\ open
    /\ provider = "claude"
    /\ nEdits < MaxEdits
    /\ claudeApiKey' = k
    /\ NoteEdit("claudeApiKey", k)
    /\ Edited
    /\ UNCHANGED <<provider, apiKey, extractionModel, solutionModel, debuggingModel>>

\* A model card is clicked (line 410); the cards are rendered only for openai (line 374).
SelectModel(category, m) ==
    /\ open
    /\ provider = "openai"
    /\ nEdits < MaxEdits
    /\ extractionModel' = IF category = "extractionModel" THEN m ELSE extractionModel
    /\ solutionModel' = IF category = "solutionModel" THEN m ELSE solutionModel
    /\ debuggingModel' = IF category = "debuggingModel" THEN m ELSE debuggingModel
    /\ NoteEdit(category, m)
    /\ Edited
    /\ UNCHANGED <<provider, apiKey, claudeApiKey>>

ModelCategoryKeys == {"extractionModel", "solutionModel", "debuggingModel"}

---------------------------------------------------------------------------
(* The host side of getConfig and the two ways its promise settles *)

\* The host answers a getConfig call in flight: with its configuration as it
\* is now, or with a failure.
GetConfigServed(i) ==
    /\ i \in 1..Len(loads)
    /\ loads[i].st = "sent"
    /\ \/ loads' = [loads EXCEPT ![i] = [st |-> "ok", cfg |-> store]]
       \/ loads' = [loads EXCEPT ![i] = [st |-> "err", cfg |-> Defaults]]
    /\ UNCHANGED <<open, bufferVars, isLoading, validationError, saves, store,
                   reloadPending, toast, lastOp, lastResult, roundTrip, nLoads,
                   nSaves, nEdits, validatorVars, userEdits>>

\* getConfig resolved: .then (lines 124-131) and .finally (lines 136-138).
LoadResolved(i) ==
    /\ i \in 1..Len(loads)
    /\ loads[i].st = "ok"
    /\ SetBuffer(LoadedBuffer(loads[i].cfg))
    /\ isLoading' = FALSE
    /\ loads' = RemoveAt(loads, i)
    /\ toast' = "none"
    /\ lastOp' = "loadOk"
    /\ UNCHANGED <<open, validationError, saves, store, reloadPending, lastResult,
                   roundTrip, nLoads, nSaves, nEdits, validatorVars, userEdits>>

LoadRejectedResetsBuffer(i) ==
    /\ i \in 1..Len(loads)
    /\ loads[i].st = "err"
    /\ SetBuffer(Defaults)
    /\ toast' = "loadError"
    /\ isLoading' = FALSE
    /\ loads' = RemoveAt(loads, i)
    /\ lastOp' = "loadFailed"
    /\ Intervene
    /\ UNCHANGED <<open, validationError, saves, store, reloadPending, lastResult,
                   nLoads, nSaves, nEdits, validatorVars, userEdits>>

\* getConfig rejected: .catch (lines 132-135) and .finally (lines 136-138).
LoadRejected(i) ==
    /\ i \in 1..Len(loads)
    /\ loads[i].st = "err"
    /\ toast' = "loadError"
    /\ isLoading' = FALSE
    /\ loads' = RemoveAt(loads, i)
    /\ lastOp' = "loadFailed"
    /\ Intervene
    /\ UNCHANGED <<open, bufferVars, validationError, saves, store, reloadPending,
                   lastResult, nLoads, nSaves, nEdits, validatorVars, userEdits>>

---------------------------------------------------------------------------
(* Save *)

\* The Save button is clicked (line 483); it is rendered while the dialog is
\* open and disabled while isLoading (line 484). handleSave up to its await
\* (lines 152-187).
HandleSave ==
    /\ open
    /\ ~isLoading
    /\ LET msg == ValidationMessage(provider, apiKey, claudeApiKey) IN
       \/ /\ msg # ""
          /\ validationError' = msg
          /\ lastOp' = "saveRejected"
          /\ UNCHANGED <<isLoading, saves, nSaves>>
       \/ /\ msg = ""
          /\ nSaves < MaxSaves
          /\ validationError' = ""
          /\ isLoading' = TRUE
          /\ saves' = Append(saves, SaveArgs)
          /\ nSaves' = nSaves + 1
          /\ lastOp' = "saveSubmitted"
    /\ toast' = "none"
    /\ Intervene
    /\ UNCHANGED <<open, bufferVars, loads, store, reloadPending, lastResult, nLoads,
                   nEdits, validatorVars, userEdits>>

\* How an updateConfig call can settle: resolved true, resolved false, rejected.
SaveOutcomes == {"true", "false", "rejected"}

\* The host's configuration after an updateConfig call that ends with
\* `outcome`: replaced wholesale by the submitted one exactly when the host
\* reports success.
HostUpdateConfig(config, outcome) == IF outcome = "true" THEN config ELSE store

UpdateConfigSettlesClearingKeys(i, outcome) ==
    /\ i \in 1..Len(saves)
    /\ saves' = RemoveAt(saves, i)
    /\ isLoading' = FALSE
    /\ lastOp' = "saveSettled"
    /\ lastResult' = outcome
    /\ store' = HostUpdateConfig(saves[i], outcome)
    /\ \/ /\ outcome = "true"
          /\ toast' = "success"
          /\ open' = FALSE
          /\ reloadPending' = TRUE
          /\ roundTrip' = [cfg |-> saves[i], clean |-> loads = <<>> /\ saves' = <<>>]
          /\ UNCHANGED bufferVars
       \/ /\ outcome = "false"
          /\ toast' = "none"
          /\ Intervene
          /\ UNCHANGED <<open, bufferVars, reloadPending>>
       \/ /\ outcome = "rejected"
          /\ toast' = "saveError"
          /\ apiKey' = EmptyKey
          /\ claudeApiKey' = EmptyKey
          /\ Intervene
          /\ UNCHANGED <<open, provider, extractionModel, solutionModel,
                         debuggingModel, reloadPending>>
    /\ UNCHANGED <<validationError, loads, nLoads, nSaves, nEdits, validatorVars, userEdits>>

\* An updateConfig call settles and handleSave resumes (lines 188-203).
UpdateConfigSettles(i, outcome) ==
    /\ i \in 1..Len(saves)
    /\ saves' = RemoveAt(saves, i)
    /\ isLoading' = FALSE
    /\ lastOp' = "saveSettled"
    /\ lastResult' = outcome
    /\ store' = HostUpdateConfig(saves[i], outcome)
    /\ \/ /\ outcome = "true"
          /\ toast' = "success"
          /\ open' = FALSE
          /\ reloadPending' = TRUE
          /\ roundTrip' = [cfg |-> saves[i], clean |-> loads = <<>> /\ saves' = <<>>]
       \/ /\ outcome = "false"
          /\ toast' = "none"
          /\ Intervene
          /\ UNCHANGED <<open, reloadPending>>
       \/ /\ outcome = "rejected"
          /\ toast' = "saveError"
          /\ Intervene
          /\ UNCHANGED <<open, reloadPending>>
    /\ UNCHANGED <<bufferVars, validationError, loads, nLoads, nSaves, nEdits,
                   validatorVars, userEdits>>

\* The timer of lines 194-196 fires: window.location.reload() constructs the
\* component anew, and the callbacks of the old page are gone.
Reload ==
    /\ reloadPending
    /\ reloadPending' = FALSE
    /\ open' = FALSE
    /\ SetBuffer(Defaults)
    /\ isLoading' = FALSE
    /\ validationError' = ""
    /\ loads' = <<>>
    /\ saves' = <<>>
    /\ userEdits' = NoEdits
    /\ toast' = "none"
    /\ lastOp' = "reload"
    /\ UNCHANGED <<store, lastResult, roundTrip, nLoads, nSaves, nEdits, validatorVars>>

Next ==
    \/ OpenDialog
    \/ RerunLoadEffect
    \/ CloseDialog
    \/ \E p \in Providers : SelectProvider(p)
    \/ \E k \in TypedKeys : EditApiKey(k)
    \/ \E k \in TypedKeys : EditClaudeApiKey(k)
    \/ \E c \in ModelCategoryKeys, m \in ModelIds : SelectModel(c, m)
    \/ \E i \in 1..MaxLoads : GetConfigServed(i)
    \/ \E i \in 1..MaxLoads : LoadResolved(i)
    \/ \E i \in 1..MaxLoads : LoadRejected(i)
    \/ HandleSave
    \/ \E i \in 1..MaxSaves, o \in SaveOutcomes : UpdateConfigSettles(i, o)
    \/ Reload

Spec == Init /\ [][Next]_vars

---------------------------------------------------------------------------
(* The validator on its own: validateApiKey applied to candidate keys *)

Pads ==
    {<<>>} \cup {Rep(w, n) : w \in {" ", "\t", "\n"}, n \in 1..MaxPad}

Prefixes ==
    { <<>>,
      <<"s", "k", "-">>, <<"s", "k", "_">>, <<"s", "k">>, <<"S", "k", "-">>,
      <<"x", "s", "k", "-">>,
      <<"s", "k", "-", "a", "n", "t", "-">>, <<"s", "k", "_", "a", "n", "t", "_">>,
      <<"s", "k", "-", "a", "n", "t", "_">>, <<"s", "k", "_", "a", "n", "t", "-">>,
      <<"s", "k", "-", "a", "n", "t">>, <<"s", "k", "-", "A", "N", "T", "-">> }

BodyLengths ==
    {0, OpenAIMinChars - 1, ClaudeMinChars - 1}
        \cup {OpenAIMinChars + n : n \in 0..MaxExtra}
        \cup {ClaudeMinChars + n : n \in 0..MaxExtra}

\* "" for a body of alphanumerics only, else the character put in its place
\* in the middle of the body.
Flaws == {"", "-", " ", "_"}

Body(c, n, flaw) ==
    [i \in 1..n |-> IF flaw # "" /\ i = (n + 1) \div 2 THEN flaw ELSE c]

CandidateKeys ==
    { lead \o prefix \o Body(c, n, flaw) \o trail :
        lead \in Pads, prefix \in Prefixes, c \in {"a", "Z", "7"},
        n \in BodyLengths, flaw \in Flaws, trail \in Pads }

InitV ==
    /\ open = FALSE
    /\ SetBufferInit
    /\ isLoading = FALSE
    /\ validationError = ""
    /\ loads = <<>>
    /\ saves = <<>>
    /\ store = Defaults
    /\ reloadPending = FALSE
    /\ toast = "none"
    /\ lastOp = "init"
    /\ lastResult = "none"
    /\ roundTrip = [cfg |-> Defaults, clean |-> FALSE]
    /\ nLoads = 0
    /\ nSaves = 0
    /\ nEdits = 0
    /\ userEdits = NoEdits
    /\ vKey \in CandidateKeys
    /\ vProvider \in Providers
    /\ vResult = FALSE
    /\ vDone = FALSE

\* One call of validateApiKey(vKey, vProvider).
Validate ==
    /\ ~vDone
    /\ vResult' = validateApiKey(vKey, vProvider)
    /\ vDone' = TRUE
    /\ UNCHANGED <<formVars, vKey, vProvider>>

NextV == Validate

SpecV == InitV /\ [][NextV]_vars

---------------------------------------------------------------------------
(* Vocabulary of the properties *)

\* The key the selected provider requires.
RequiredKey == IF provider = "openai" THEN apiKey ELSE claudeApiKey

RequiredKeyOf(config) ==
    IF config.provider = "openai" THEN config.apiKey ELSE config.claudeApiKey

\* The step is a Save click: handleSave ran up to its return or its await.
SaveClicked ==
    /\ lastOp' \in {"saveRejected", "saveSubmitted"}
    /\ \/ lastOp' # lastOp
       \/ validationError' # validationError
       \/ saves' # saves

\* The step is an updateConfig call settling.
SaveSettled == lastOp' = "saveSettled" /\ saves' # saves

\* The step is a getConfig call failing.
LoadFailed == lastOp' = "loadFailed" /\ loads' # loads

\* s without its leading and trailing whitespace, said without recursion: the
\* part from the first to the last character that is not whitespace.
Stripped(s) ==
    LET solid == {i \in 1..Len(s) : s[i] \notin WhiteSpace} IN
    IF solid = {} THEN <<>>
    ELSE SubSeq(s, CHOOSE i \in solid : \A j \in solid : i <= j,
                   CHOOSE i \in solid : \A j \in solid : i >= j)

\* The fixed beginnings the two patterns allow.
PatternHeads(p) ==
    IF p = "openai" THEN {<<"s", "k", "-">>}
    ELSE {<<"s", "k", a, "a", "n", "t", b>> : a \in {"-", "_"}, b \in {"-", "_"}}

\* s is one of the pattern's beginnings followed by 32 or more alphanumerics
\* and nothing else.
MatchesPattern(s, p) ==
    \E head \in PatternHeads(p) :
        /\ Len(s) >= Len(head) + 32
        /\ SubSeq(s, 1, Len(head)) = head
        /\ \A i \in (Len(head) + 1)..Len(s) : s[i] \in Alnum

---------------------------------------------------------------------------
(* Properties *)

\* C1: every updateConfig call carries a configuration whose required key
\* (apiKey for openai, claudeApiKey for claude) is non-empty and passes
\* validateApiKey for its provider.
C1_SubmittedKeyValidated ==
    \A i \in 1..Len(saves) :
        /\ saves[i].provider \in Providers
        /\ RequiredKeyOf(saves[i]) # EmptyKey
        /\ validateApiKey(RequiredKeyOf(saves[i]), saves[i].provider)

C1_Witness ==
    /\ lastOp = "saveSubmitted"
    /\ saves # <<>>
    /\ saves[Len(saves)].provider = "claude"

\* C2: while an updateConfig call is outstanding the Save button is disabled
\* (isLoading) and at most one call is in flight.
C2_OneSaveInFlight ==
    saves # <<>> => (isLoading /\ Len(saves) <= 1)

\* C3 as claimed: after a failed getConfig the error notification was shown
\* and the edit buffer holds the defaults.
C3_FailedLoadLeavesDefaults ==
    lastOp = "loadFailed" => (toast = "loadError" /\ Buffer = Defaults)

\* C3 as amended: a failed getConfig shows the error notification and leaves
\* the six fields of the edit buffer as they were just before the failure.
C3_FailedLoadKeepsBuffer ==
    [][LoadFailed => (toast' = "loadError" /\ Buffer' = Buffer)]_vars

C3_Witness ==
    /\ lastOp = "loadFailed"
    /\ toast = "loadError"
    /\ Buffer # Defaults

\* C4: a settled save ends in exactly one reported outcome: on success the
\* success notification, the dialog closed and the reload scheduled; in every
\* other case the error notification.
C4_SettledSaveReported ==
    lastOp = "saveSettled" =>
        IF lastResult = "true"
        THEN toast = "success" /\ ~open /\ reloadPending
        ELSE toast = "saveError"

\* C5: a Save click rejected by validation, and an updateConfig call that
\* does not succeed, leave the six fields of the edit buffer and the dialog's
\* open state as they were; a rejected click leaves the dialog open.
C5_FailedSaveKeepsBuffer ==
    [][ /\ (SaveClicked /\ lastOp' = "saveRejected") =>
            (Buffer' = Buffer /\ open /\ open')
        /\ (SaveSettled /\ lastResult' # "true") =>
            (Buffer' = Buffer /\ open' = open) ]_vars

C5_Witness ==
    /\ lastOp = "saveSettled"
    /\ lastResult = "rejected"
    /\ open
    /\ ~isLoading
    /\ ValidationMessage(provider, apiKey, claudeApiKey) = ""

\* C6: a load completing right after a successful save of c, nothing else
\* having happened since, leaves the edit buffer equal to c in all six fields.
C6_RoundTrip ==
    (lastOp = "loadOk" /\ roundTrip.clean) => Buffer = roundTrip.cfg

C6_Witness ==
    /\ lastOp = "loadOk"
    /\ roundTrip.clean
    /\ lastResult = "true"
    /\ Buffer = roundTrip.cfg
    /\ Buffer \notin InitStores

\* C7: validateApiKey returns true exactly when the key without its leading
\* and trailing whitespace matches the provider's pattern, and false for the
\* empty string.
C7_ValidatorIsTrimmedPattern ==
    vDone =>
        /\ vResult <=> MatchesPattern(Stripped(vKey), vProvider)
        /\ vKey = EmptyKey => ~vResult

C7_Witness ==
    /\ vDone
    /\ vResult
    /\ vKey[1] \in WhiteSpace
    /\ vKey[Len(vKey)] \in WhiteSpace

\* C8 as claimed: a key that does not match the provider's pattern as given,
\* untrimmed, is invalid; "sk-" and "sk-ant-" followed by 32 alphanumerics are
\* valid for openai and claude.
C8_UntrimmedNonMatchInvalid ==
    vDone =>
        /\ ~MatchesPattern(vKey, vProvider) => ~vResult
        /\ (vKey = OpenAIKey /\ vProvider = "openai") => vResult
        /\ (vKey = ClaudeKey /\ vProvider = "claude") => vResult

\* C8 as amended: a key that, with its leading and trailing whitespace
\* removed, does not match the provider's pattern is invalid; "sk-" and
\* "sk-ant-" followed by 32 alphanumerics are valid for openai and claude.
C8_TrimmedNonMatchInvalid ==
    vDone =>
        /\ ~MatchesPattern(Stripped(vKey), vProvider) => ~vResult
        /\ (vKey = OpenAIKey /\ vProvider = "openai") => vResult
        /\ (vKey = ClaudeKey /\ vProvider = "claude") => vResult

C8_Witness ==
    /\ vDone
    /\ ~vResult
    /\ vProvider = "openai"
    /\ Len(vKey) >= 3 + 32
    /\ SubSeq(vKey, 1, 3) = <<"s", "k", "-">>

\* C9: a Save click with the selected provider's key empty or failing
\* validateApiKey is rejected with the message for that field and that fault,
\* without raising isLoading or calling updateConfig.
C9_BadKeyRejectedLocally ==
    [][ (SaveClicked /\ (RequiredKey = EmptyKey \/ ~validateApiKey(RequiredKey, provider)))
        => /\ lastOp' = "saveRejected"
           /\ validationError' =
                IF provider = "openai"
                THEN (IF apiKey = EmptyKey THEN MsgOpenAIRequired ELSE MsgInvalidOpenAI)
                ELSE (IF claudeApiKey = EmptyKey THEN MsgClaudeRequired
                      ELSE MsgInvalidClaude)
           /\ ~isLoading'
           /\ saves' = saves ]_vars

C9_Witness ==
    /\ lastOp = "saveRejected"
    /\ provider = "claude"
    /\ claudeApiKey = EmptyKey
    /\ validationError = MsgClaudeRequired
    /\ ~isLoading

\* C10: a Save click with the selected provider's key valid calls updateConfig
\* exactly once, with the six fields of the edit buffer exactly as they are at
\* the click.
C10_ValidKeySubmittedAsIs ==
    [][ (SaveClicked /\ RequiredKey # EmptyKey /\ validateApiKey(RequiredKey, provider))
        => /\ lastOp' = "saveSubmitted"
           /\ saves' = Append(saves, Buffer)
           /\ isLoading' ]_vars

C10_Witness ==
    /\ lastOp = "saveSubmitted"
    /\ saves # <<>>
    /\ saves[Len(saves)] = Buffer
    /\ apiKey = PaddedOpenAIKey
    /\ provider = "openai"

\* C11: a field the user has set since the dialog opened holds the user's
\* value, whatever getConfig responses have arrived since.
C11_UserEditsKept ==
    \A f \in userEdits.fields : Buffer[f] = userEdits.vals[f]

====
